---- MODULE Spec2Model ----
(***************************************************************************)
(* Model of the calendar assistant: CalendarMCPClient                      *)
(* (mcp_calendar_client.py) and ClaudeMCPIntegration / CalendarAssistant   *)
(* (claude_mcp_integration.py).  One action per step of the program; the   *)
(* external collaborators (model backend, remote calendar service, stdin,  *)
(* environment) answer nondeterministically.                               *)
(***************************************************************************)
EXTENDS Integers, Sequences, FiniteSets, TLC

(* ----------------------------- bounds ---------------------------------- *)

\* longest content list of a first model response
MaxBlocks == 2

(* ------------------------- value universes ----------------------------- *)

SeqsUpTo(S, n) == UNION {[1..k -> S] : k \in 0..n}

\* tool names the remote service may report / the model may ask for
ToolNames == {"list_calendar_events", "create_calendar_event"}

\* what list_tools may return (tools_response.tools, by name)
Registries == {{}, {"list_calendar_events"}, ToolNames}

ToolIds == {"toolu_1", "toolu_2"}
ToolInputs == {"args"}
Texts == {"t1", "t2"}

\* str(e) of the exceptions the external calls raise; str(e) may be empty
ExcMsgs == {"", "boom"}

\* payloads of a successful call_tool: one json.dumps accepts, one it rejects
Contents == {"c_json", "c_obj"}

TextBlock(t) == [type |-> "text", text |-> t]
ToolUseBlock(n, i, a) == [type |-> "tool_use", name |-> n, id |-> i, input |-> a]
OtherBlock == [type |-> "other"]

Blocks ==
    {TextBlock(t) : t \in Texts}
    \cup {ToolUseBlock(n, i, a) : n \in ToolNames, i \in ToolIds, a \in ToolInputs}
    \cup {OtherBlock}

Responses == SeqsUpTo(Blocks, MaxBlocks)

\* content lists of a follow-up model response: empty, text after a further
\* tool_use, and two texts around a further tool_use
FollowToolUse == ToolUseBlock("list_calendar_events", "toolu_2", "args")

FollowResponses ==
    { <<>>,
      <<FollowToolUse, TextBlock("f1")>>,
      <<TextBlock("f1"), FollowToolUse, TextBlock("f2")>> }

\* characters of an input line
Chars == {"q", "u", "i", "t", "e", "x", "Q", "U", "I", "T", "E", "X", " ", "a"}

\* str.lower(), per character
LowerChar(c) ==
    CASE c = "Q" -> "q"
      [] c = "U" -> "u"
      [] c = "I" -> "i"
      [] c = "T" -> "t"
      [] c = "E" -> "e"
      [] c = "X" -> "x"
      [] OTHER -> c

Lower(s) == [k \in 1..Len(s) |-> LowerChar(s[k])]

Sentinels == {<<"q", "u", "i", "t">>, <<"e", "x", "i", "t">>}

\* the lines input() returns in the model
Lines ==
    { <<"q", "u", "i", "t">>, <<"Q", "U", "I", "T">>, <<"Q", "u", "i", "t">>,
      <<"e", "x", "i", "t">>, <<"E", "x", "I", "t">>,
      <<"q", "u", "i", "t", " ">>, <<"e", "x", "i">>, <<>>, <<"a">> }

\* the fixed request of example_api_call
ExampleCommand == <<"a", " ", "a">>

\* os.getenv("ANTHROPIC_API_KEY")
EnvValues == {"None", "", "sk-key"}

\* the two entry points of the script, and a caller that constructs a
\* ClaudeMCPIntegration and calls process_request without initialize_mcp
Entries == {"run_interactive", "example_api_call", "process_request"}

Exc(cls, msg) == [cls |-> cls, msg |-> msg]
NoException == Exc("None", "")
Str(e) == e.msg

NoResult == [kind |-> "none"]
NoToolResult == [kind |-> "none"]

(* ------------------------- tool descriptors ---------------------------- *)

\* longest descriptor list handed to _format_tools_for_claude
MaxTools == 3

\* tool.description and tool.inputSchema as the remote service reports them
Description(name) == "about " \o name
InputSchema(name) == [type |-> "object", title |-> name]

\* the order in which the tools were inserted into self.tools
ToolOrder == <<"list_calendar_events", "create_calendar_event">>

\* get_available_tools: one dict per item of self.tools, in dict order
GetAvailableTools(registry) ==
    LET InRegistry(n) == n \in registry
        names == SelectSeq(ToolOrder, InRegistry)
    IN [k \in 1..Len(names) |->
          [name |-> names[k], description |-> Description(names[k]),
           input_schema |-> InputSchema(names[k])]]

\* descriptor dicts a caller may pass: the three keys, with or without a
\* further key
Descriptors ==
    {[name |-> n, description |-> d, input_schema |-> InputSchema(n)] :
        n \in ToolNames, d \in {"", "creates or lists events"}}
    \cup {[name |-> "list_calendar_events", description |-> "lists",
           input_schema |-> InputSchema("create_calendar_event"),
           annotations |-> "read-only"]}

DescriptorLists == SeqsUpTo(Descriptors, MaxTools)

FormatToolsForClaude_Reversed(tool_list) ==
    [k \in 1..Len(tool_list) |->
       [name |-> tool_list[Len(tool_list) + 1 - k].name,
        description |-> tool_list[Len(tool_list) + 1 - k].description,
        input_schema |-> tool_list[Len(tool_list) + 1 - k].input_schema]]

\* _format_tools_for_claude: a new dict of the three keys per tool, appended
\* in list order
FormatToolsForClaude(tool_list) ==
    [k \in 1..Len(tool_list) |->
       [name |-> tool_list[k].name,
        description |-> tool_list[k].description,
        input_schema |-> tool_list[k].input_schema]]

(* ------------------------------ state ---------------------------------- *)

VARIABLES
    pc,               \* position of the main coroutine
    entry,            \* which entry point runs
    api_key,          \* value of the credential environment variable
    assistant,        \* TRUE once a CalendarAssistant has been constructed
    started,          \* TRUE once CalendarAssistant.start() has been called
    opened,           \* TRUE once CalendarAssistant.start() has returned
    mcp_client,       \* integration.mcp_client is not None
    has_stdio_client, \* hasattr(self, 'stdio_client')
    has_session_context, \* hasattr(self, 'session_context')
    stdio,            \* transport context: "none" | "entered" | "exited" |
                      \* "exited_unentered" (__aexit__ without __aenter__)
    session_ctx,      \* session context, same values
    initialized,      \* session.initialize() has returned
    tools,            \* CalendarMCPClient.tools (names)
    exc,              \* exception propagating out of the main coroutine
    printed,          \* last thing printed to the user
    user_input,       \* line read by input()
    command,          \* argument of process_command / process_request
    response,         \* first model response (content list)
    idx,              \* position of the scan in response.content
    results,          \* results list of _handle_claude_response
    tool_result,      \* result of the last execute_tool
    result,           \* value returned by process_command
    in_flight,        \* remote invocations started and not yet returned
    turns,            \* process_request calls made for the current line
    model_requests,   \* messages.create calls made in the current turn
    remote_calls,     \* call_tool calls made in the current turn, in order
    remote_returns,   \* what each of those calls returned or raised, in order
    follow_ups,       \* follow-up requests issued in the current turn, in order
    raised,           \* exception raised inside process_request in this turn
    mcp_tools,        \* mcp_tools of process_request (list of descriptors)
    claude_tools,     \* claude_tools of process_request (tools= of the request)
    follow_returns    \* follow-up responses received in the current turn, in order

env == <<entry, api_key>>
app == <<assistant, started, opened, mcp_client>>
conn == <<has_stdio_client, has_session_context, stdio, session_ctx,
          initialized, tools>>
turn == <<command, response, idx, results, tool_result, result>>
hist == <<in_flight, turns, model_requests, remote_calls, remote_returns,
          follow_ups, raised>>
aux == <<mcp_tools, claude_tools, follow_returns>>
vars == <<pc, env, app, conn, exc, printed, user_input, turn, hist, aux>>

Init ==
    /\ pc = "main"
    /\ entry \in Entries
    /\ api_key \in EnvValues
    /\ entry = "process_request" => api_key = "sk-key"
    /\ assistant = FALSE
    /\ started = FALSE
    /\ opened = FALSE
    /\ mcp_client = FALSE
    /\ has_stdio_client = FALSE
    /\ has_session_context = FALSE
    /\ stdio = "none"
    /\ session_ctx = "none"
    /\ initialized = FALSE
    /\ tools = {}
    /\ exc = NoException
    /\ printed = "nothing"
    /\ user_input = <<>>
    /\ command = <<>>
    /\ response = <<>>
    /\ idx = 0
    /\ results = <<>>
    /\ tool_result = NoToolResult
    /\ result = NoResult
    /\ in_flight = 0
    /\ turns = 0
    /\ model_requests = 0
    /\ remote_calls = <<>>
    /\ remote_returns = <<>>
    /\ follow_ups = <<>>
    /\ raised = NoException
    /\ mcp_tools = <<>>
    /\ claude_tools = <<>>
    /\ follow_returns = <<>>

(* ------------------------- startup and open ---------------------------- *)

CredentialMissing_EmptyOnly(k) == k = ""

\* "if not api_key": None and the empty string are both missing
CredentialMissing(k) == k \in {"None", ""}

\* run_interactive / example_api_call up to the construction of the
\* assistant and the call of start() -> initialize_mcp(); the direct caller
\* constructs the integration (mcp_client = None) and calls process_request
Main ==
    /\ pc = "main"
    /\ IF entry = "process_request"
       THEN /\ pc' = "get_tools"
            /\ command' = ExampleCommand
            /\ turns' = turns + 1
            /\ UNCHANGED <<assistant, started, mcp_client, printed>>
       ELSE /\ IF CredentialMissing(api_key)
               THEN /\ printed' = "Please set ANTHROPIC_API_KEY environment variable"
                    /\ pc' = "done"
                    /\ UNCHANGED <<assistant, started, mcp_client>>
               ELSE /\ assistant' = TRUE
                    /\ started' = TRUE
                    /\ mcp_client' = TRUE
                    /\ pc' = "aenter_stdio"
                    /\ UNCHANGED printed
            /\ UNCHANGED <<command, turns>>
    /\ UNCHANGED <<env, aux, opened, conn, exc, user_input, response, idx,
                   results, tool_result, result, in_flight, model_requests,
                   remote_calls, remote_returns, follow_ups, raised>>

\* __aenter__ re-raises; initialize_mcp, start and the entry point do not
\* catch: start() is called before the try of interactive_mode
OpenFailed(e) ==
    /\ exc' = e
    /\ pc' = "done"

\* self.stdio_client = stdio_client(...); await self.stdio_client.__aenter__()
StdioEnter ==
    /\ pc = "aenter_stdio"
    /\ has_stdio_client' = TRUE
    /\ \/ /\ stdio' = "entered"
          /\ pc' = "aenter_session"
          /\ UNCHANGED exc
       \/ /\ \E m \in ExcMsgs : OpenFailed(Exc("Exception", m))
          /\ UNCHANGED stdio
    /\ UNCHANGED <<env, aux, app, has_session_context, session_ctx, initialized,
                   tools, printed, user_input, turn, hist>>

\* self.session_context = ClientSession(...); await ...__aenter__()
SessionEnter ==
    /\ pc = "aenter_session"
    /\ has_session_context' = TRUE
    /\ \/ /\ session_ctx' = "entered"
          /\ pc' = "initialize"
          /\ UNCHANGED exc
       \/ /\ \E m \in ExcMsgs : OpenFailed(Exc("Exception", m))
          /\ UNCHANGED session_ctx
    /\ UNCHANGED <<env, aux, app, has_stdio_client, stdio, initialized, tools,
                   printed, user_input, turn, hist>>

\* await self.session.initialize()
Initialize ==
    /\ pc = "initialize"
    /\ \/ /\ initialized' = TRUE
          /\ pc' = "discover"
          /\ UNCHANGED exc
       \/ /\ \E m \in ExcMsgs : OpenFailed(Exc("Exception", m))
          /\ UNCHANGED initialized
    /\ UNCHANGED <<env, aux, app, has_stdio_client, has_session_context, stdio,
                   session_ctx, tools, printed, user_input, turn, hist>>

\* after start(): the command loop, or the single call of example_api_call
AfterStart ==
    IF entry = "run_interactive"
    THEN /\ pc' = "input"
         /\ UNCHANGED command
    ELSE /\ pc' = "process_command"
         /\ command' = ExampleCommand

\* _discover_tools: self.tools = {tool.name: tool for tool in ...}
DiscoverTools ==
    /\ pc = "discover"
    /\ \/ /\ \E reg \in Registries : tools' = reg
          /\ opened' = TRUE
          /\ AfterStart
          /\ UNCHANGED exc
       \/ /\ \E m \in ExcMsgs : OpenFailed(Exc("Exception", m))
          /\ UNCHANGED <<tools, opened, command>>
    /\ UNCHANGED <<env, aux, assistant, started, mcp_client, has_stdio_client,
                   has_session_context, stdio, session_ctx, initialized,
                   printed, user_input, response, idx, results, tool_result,
                   result, hist>>

(* --------------------------- command loop ------------------------------ *)

IsSentinel_CaseSensitive(line) == line \in Sentinels

\* user_input.lower() in ['quit', 'exit']
IsSentinel(line) == Lower(line) \in Sentinels

\* input(...) and the sentinel test of interactive_mode; an exception of
\* input() is not caught in the loop and runs the finally clause
ReadInput ==
    /\ pc = "input"
    /\ \/ /\ exc' = Exc("EOFError", "")
          /\ pc' = "stop"
          /\ UNCHANGED <<user_input, command, printed>>
       \/ \E l \in Lines :
            /\ user_input' = l
            /\ IF IsSentinel(l)
               THEN /\ pc' = "stop"
                    /\ UNCHANGED <<command, printed>>
               ELSE /\ pc' = "process_command"
                    /\ command' = l
                    /\ printed' = "Processing request..."
            /\ UNCHANGED exc
    /\ UNCHANGED <<env, aux, app, conn, response, idx, results, tool_result,
                   result, hist>>

\* CalendarAssistant.process_command
ProcessCommand ==
    /\ pc = "process_command"
    /\ IF IsSentinel(command)
       THEN /\ result' = [kind |-> "action", action |-> "quit"]
            /\ pc' = "report"
            /\ UNCHANGED turns
       ELSE /\ turns' = turns + 1
            /\ pc' = "get_tools"
            /\ UNCHANGED result
    /\ UNCHANGED <<env, aux, app, conn, exc, printed, user_input, command, response,
                   idx, results, tool_result, in_flight, model_requests,
                   remote_calls, remote_returns, follow_ups, raised>>

(* ------------------------------ a turn --------------------------------- *)

FailureOutcome(e) ==
    [kind |-> "outcome", success |-> FALSE,
     error |-> "Failed to process request: " \o Str(e), response |-> "None"]

SuccessOutcome(res, resp) ==
    [kind |-> "outcome", success |-> TRUE, results |-> res, raw_response |-> resp]

\* without the handler the exception leaves process_request, process_command
\* and the loop
Caught_Propagates(e) ==
    /\ exc' = e
    /\ pc' = "stop"
    /\ UNCHANGED result

\* "except Exception as e" of process_request: the turn ends with a
\* failure outcome that carries str(e) and no results
Caught(e) ==
    /\ result' = FailureOutcome(e)
    /\ pc' = "report"
    /\ UNCHANGED exc

\* an exception raised inside the try block of process_request
Raise(e) ==
    /\ raised' = e
    /\ Caught(e)

\* without a client the tool list defaults to the empty list
GetTools_DefaultsEmpty ==
    /\ pc = "get_tools"
    /\ mcp_tools' = IF mcp_client THEN GetAvailableTools(tools) ELSE <<>>
    /\ claude_tools' = FormatToolsForClaude(mcp_tools')
    /\ pc' = "messages_create"
    /\ UNCHANGED <<env, follow_returns, app, conn, exc, printed, user_input,
                   turn, hist>>

\* mcp_tools = self.mcp_client.get_available_tools();
\* claude_tools = self._format_tools_for_claude(mcp_tools)
GetTools ==
    /\ pc = "get_tools"
    /\ IF mcp_client
       THEN /\ mcp_tools' = GetAvailableTools(tools)
            /\ claude_tools' = FormatToolsForClaude(GetAvailableTools(tools))
            /\ pc' = "messages_create"
            /\ UNCHANGED <<result, exc, raised>>
       ELSE /\ Raise(Exc("AttributeError",
                         "'NoneType' object has no attribute 'get_available_tools'"))
            /\ UNCHANGED <<mcp_tools, claude_tools>>
    /\ UNCHANGED <<env, follow_returns, app, conn, printed, user_input, command, response, idx,
                   results, tool_result, in_flight, turns, model_requests,
                   remote_calls, remote_returns, follow_ups>>

\* response = self.client.messages.create(..., tools=claude_tools, ...)
ModelRequest ==
    /\ pc = "messages_create"
    /\ model_requests' = model_requests + 1
    /\ \/ \E r \in Responses :
            /\ response' = r
            /\ idx' = 1
            /\ results' = <<>>
            /\ pc' = "scan"
            /\ UNCHANGED <<result, exc, raised>>
       \/ /\ \E m \in ExcMsgs : Raise(Exc("APIError", m))
          /\ UNCHANGED <<response, idx, results>>
    /\ UNCHANGED <<env, aux, app, conn, printed, user_input, command, tool_result,
                   in_flight, turns, remote_calls, remote_returns, follow_ups>>

TextEntry(block) == [type |-> "text", content |-> block.text]

AddText_Prepend(res, block) == <<TextEntry(block)>> \o res

\* results.append({"type": "text", "content": content_block.text})
AddText(res, block) == Append(res, TextEntry(block))

\* if content_block.type == "text"
ScanText ==
    /\ pc = "scan"
    /\ idx <= Len(response)
    /\ response[idx].type = "text"
    /\ results' = AddText(results, response[idx])
    /\ idx' = idx + 1
    /\ UNCHANGED <<pc, env, aux, app, conn, exc, printed, user_input, command,
                   response, tool_result, result, hist>>

\* a block that is neither text nor tool_use is skipped
ScanOther ==
    /\ pc = "scan"
    /\ idx <= Len(response)
    /\ response[idx].type \notin {"text", "tool_use"}
    /\ idx' = idx + 1
    /\ UNCHANGED <<pc, env, aux, app, conn, exc, printed, user_input, command,
                   response, results, tool_result, result, hist>>

ToolKnown_Always(name, registry) == TRUE

\* if tool_name not in self.tools: raise ValueError(...)
ToolKnown(name, registry) == name \in registry

UnknownTool(name) == Exc("ValueError", "Tool '" \o name \o "' not available")

\* the call is started as a task and the scan goes on without awaiting it
ExecuteTool_NoAwait ==
    /\ pc = "scan"
    /\ idx <= Len(response)
    /\ response[idx].type = "tool_use"
    /\ remote_calls' = Append(remote_calls,
            [name |-> response[idx].name,
             arguments |-> response[idx].input, seg |-> idx])
    /\ in_flight' = in_flight + 1
    /\ idx' = idx + 1
    /\ UNCHANGED <<pc, env, aux, app, conn, exc, printed, user_input, command,
                   response, results, tool_result, result, turns,
                   model_requests, remote_returns, follow_ups, raised>>

\* elif content_block.type == "tool_use": execute_tool up to the call of
\* session.call_tool
ExecuteTool ==
    /\ pc = "scan"
    /\ idx <= Len(response)
    /\ response[idx].type = "tool_use"
    /\ IF ToolKnown(response[idx].name, tools)
       THEN /\ remote_calls' = Append(remote_calls,
                    [name |-> response[idx].name,
                     arguments |-> response[idx].input, seg |-> idx])
            /\ in_flight' = in_flight + 1
            /\ pc' = "call_tool"
            /\ UNCHANGED <<result, exc, raised>>
       ELSE /\ Raise(UnknownTool(response[idx].name))
            /\ UNCHANGED <<remote_calls, in_flight>>
    /\ UNCHANGED <<env, aux, app, conn, printed, user_input, command, response, idx,
                   results, tool_result, turns, model_requests, remote_returns,
                   follow_ups>>

\* what session.call_tool does: return a payload or raise
RemoteAnswers ==
    {[ok |-> TRUE, content |-> c] : c \in Contents}
    \cup {[ok |-> FALSE, exc |-> Exc("McpError", m)] : m \in ExcMsgs}

ToolSuccess(name, c) ==
    [kind |-> "result", success |-> TRUE, content |-> c, tool_name |-> name]

ToolFailure_AsSuccess(name, e) == ToolSuccess(name, "c_json")

\* except Exception as e: return {"success": False, "error": str(e), ...}
ToolFailure(name, e) ==
    [kind |-> "result", success |-> FALSE, error |-> Str(e), tool_name |-> name]

ToolExecutionEntry(block, tr) ==
    [type |-> "tool_execution", tool_name |-> block.name, tool_id |-> block.id,
     input |-> block.input, result |-> tr]

AddExecution_OnlySuccess(res, block, tr) ==
    IF tr.success THEN Append(res, ToolExecutionEntry(block, tr)) ELSE res

\* results.append({"type": "tool_execution", ...}), whatever the result is
AddExecution(res, block, tr) == Append(res, ToolExecutionEntry(block, tr))

RegistryAfterCall_DropFailed(registry, name, ans) ==
    IF ans.ok THEN registry ELSE registry \ {name}

\* execute_tool reads self.tools and never assigns it
RegistryAfterCall(registry, name, ans) == registry

\* session.call_tool returns or raises; execute_tool returns the result
\* and the tool_execution entry is appended
CallToolReturn ==
    /\ pc = "call_tool"
    /\ in_flight' = in_flight - 1
    /\ \E ans \in RemoteAnswers :
         LET tr == IF ans.ok THEN ToolSuccess(response[idx].name, ans.content)
                   ELSE ToolFailure(response[idx].name, ans.exc)
         IN /\ remote_returns' = Append(remote_returns, ans)
            /\ tool_result' = tr
            /\ results' = AddExecution(results, response[idx], tr)
            /\ tools' = RegistryAfterCall(tools, response[idx].name, ans)
    /\ pc' = "follow_up"
    /\ UNCHANGED <<env, aux, app, has_stdio_client, has_session_context, stdio,
                   session_ctx, initialized, exc, printed, user_input, command, response,
                   idx, result, turns, model_requests, remote_calls,
                   follow_ups, raised>>

\* json.dumps raises TypeError on a payload that is not JSON data
JsonSerializable(tr) == tr.success => tr.content = "c_json"

\* json.dumps(tool_result)
JsonDumps(tr) == [json |-> tr]

FollowUpRequest_FirstId(resp, tool_id, tr) ==
    [user |-> "Previous request", assistant |-> resp,
     tool_use_id |-> "toolu_1", content |-> JsonDumps(tr)]

\* the messages of the follow-up request
FollowUpRequest(resp, tool_id, tr) ==
    [user |-> "Previous request", assistant |-> resp,
     tool_use_id |-> tool_id, content |-> JsonDumps(tr)]

RECURSIVE FinalResponses_Reversed(_)
FinalResponses_Reversed(f) ==
    IF f = <<>> THEN <<>>
    ELSE FinalResponses_Reversed(Tail(f))
         \o (IF Head(f).type = "text"
             THEN <<[type |-> "final_response", content |-> Head(f).text]>>
             ELSE <<>>)

\* the text blocks of the follow-up, as final_response entries
RECURSIVE FinalResponses(_)
FinalResponses(f) ==
    IF f = <<>> THEN <<>>
    ELSE (IF Head(f).type = "text"
          THEN <<[type |-> "final_response", content |-> Head(f).text]>>
          ELSE <<>>) \o FinalResponses(Tail(f))

NextSegment_Break(i, resp) == Len(resp) + 1

\* for content_block in response.content: the loop goes on with the next
\* block after a tool use
NextSegment(i, resp) == i + 1

HasToolUse(f) == \E k \in 1..Len(f) : f[k].type = "tool_use"

\* a tool_use block of the follow-up is executed too and answered by a
\* further request
FollowUp_Chained ==
    /\ pc = "follow_up"
    /\ follow_ups' = Append(follow_ups,
            FollowUpRequest(response, response[idx].id, tool_result))
    /\ \E f \in FollowResponses :
         /\ follow_returns' = Append(follow_returns, f)
         /\ results' = results \o FinalResponses(f)
         /\ model_requests' = model_requests + (IF HasToolUse(f) THEN 2 ELSE 1)
         /\ remote_calls' = IF HasToolUse(f)
                            THEN Append(remote_calls,
                                   [name |-> FollowToolUse.name,
                                    arguments |-> FollowToolUse.input, seg |-> 0])
                            ELSE remote_calls
         /\ remote_returns' = IF HasToolUse(f)
                              THEN Append(remote_returns,
                                     [ok |-> TRUE, content |-> "c_json"])
                              ELSE remote_returns
    /\ idx' = NextSegment(idx, response)
    /\ pc' = "scan"
    /\ UNCHANGED <<env, mcp_tools, claude_tools, app, conn, exc, printed,
                   user_input, command, response, tool_result, result,
                   in_flight, turns, raised>>

\* follow_up_response = self.client.messages.create(...) and the loop over
\* its blocks
FollowUp ==
    /\ pc = "follow_up"
    /\ IF ~JsonSerializable(tool_result)
       THEN /\ Raise(Exc("TypeError", "Object is not JSON serializable"))
            /\ UNCHANGED <<model_requests, follow_ups, follow_returns, results,
                           idx>>
       ELSE /\ model_requests' = model_requests + 1
            /\ follow_ups' = Append(follow_ups,
                    FollowUpRequest(response, response[idx].id, tool_result))
            /\ \/ \E f \in FollowResponses :
                    /\ follow_returns' = Append(follow_returns, f)
                    /\ results' = results \o FinalResponses(f)
                    /\ idx' = NextSegment(idx, response)
                    /\ pc' = "scan"
                    /\ UNCHANGED <<result, exc, raised>>
               \/ /\ \E m \in ExcMsgs : Raise(Exc("APIError", m))
                  /\ UNCHANGED <<results, idx, follow_returns>>
    /\ UNCHANGED <<env, mcp_tools, claude_tools, app, conn, printed, user_input, command, response,
                   tool_result, in_flight, turns, remote_calls, remote_returns>>

\* return {"success": True, "results": results, "raw_response": response}
Complete ==
    /\ pc = "scan"
    /\ idx > Len(response)
    /\ result' = SuccessOutcome(results, response)
    /\ pc' = "report"
    /\ UNCHANGED <<env, aux, app, conn, exc, printed, user_input, command, response,
                   idx, results, tool_result, hist>>

(* ----------------------- report and teardown --------------------------- *)

AfterReport_BreakOnFailure(e, res) ==
    IF e = "run_interactive" /\ res.kind = "outcome" /\ res.success
    THEN "input" ELSE "stop"

\* interactive_mode loops back to input() whatever the result was;
\* example_api_call leaves its try block; the direct caller goes on to
\* cleanup_mcp
AfterReport(e, res) == IF e = "run_interactive" THEN "input" ELSE "stop"

\* the printing of the result.  The locals of the finished iteration are
\* dead and are cleared here.
Report ==
    /\ pc = "report"
    /\ printed' = IF entry = "example_api_call" THEN "Result"
                  ELSE IF entry = "process_request" THEN printed
                  ELSE IF result.kind = "outcome" /\ result.success
                       THEN "--- Response ---"
                       ELSE "Error"
    /\ pc' = AfterReport(entry, result)
    /\ command' = <<>>
    /\ response' = <<>>
    /\ idx' = 0
    /\ results' = <<>>
    /\ tool_result' = NoToolResult
    /\ result' = NoResult
    /\ turns' = 0
    /\ model_requests' = 0
    /\ remote_calls' = <<>>
    /\ remote_returns' = <<>>
    /\ follow_ups' = <<>>
    /\ raised' = NoException
    /\ mcp_tools' = <<>>
    /\ claude_tools' = <<>>
    /\ follow_returns' = <<>>
    /\ UNCHANGED <<env, app, conn, exc, user_input, in_flight>>

\* finally: await self.stop() -> cleanup_mcp(): if self.mcp_client: __aexit__
Stop ==
    /\ pc = "stop"
    /\ pc' = IF mcp_client THEN "aexit_session" ELSE "done"
    /\ UNCHANGED <<env, aux, app, conn, exc, printed, user_input, turn, hist>>

\* an exception of __aexit__ leaves cleanup_mcp, stop and the finally clause
CloseFailed(e) ==
    /\ exc' = e
    /\ pc' = "done"

\* if hasattr(self, 'session_context'): await self.session_context.__aexit__(...)
SessionExit ==
    /\ pc = "aexit_session"
    /\ IF has_session_context
       THEN /\ session_ctx' = IF session_ctx = "entered" THEN "exited"
                               ELSE "exited_unentered"
            /\ \/ /\ pc' = "aexit_stdio"
                  /\ UNCHANGED exc
               \/ \E m \in ExcMsgs : CloseFailed(Exc("Exception", m))
       ELSE /\ pc' = "aexit_stdio"
            /\ UNCHANGED <<session_ctx, exc>>
    /\ UNCHANGED <<env, aux, app, has_stdio_client, has_session_context, stdio,
                   initialized, tools, printed, user_input, turn, hist>>

\* if hasattr(self, 'stdio_client'): await self.stdio_client.__aexit__(...);
\* then print("Goodbye!") in interactive_mode
StdioExit ==
    /\ pc = "aexit_stdio"
    /\ IF has_stdio_client
       THEN /\ stdio' = IF stdio = "entered" THEN "exited"
                         ELSE "exited_unentered"
            /\ \/ /\ pc' = "done"
                  /\ printed' = IF entry = "run_interactive" THEN "Goodbye!" ELSE printed
                  /\ UNCHANGED exc
               \/ /\ \E m \in ExcMsgs : CloseFailed(Exc("Exception", m))
                  /\ UNCHANGED printed
       ELSE /\ pc' = "done"
            /\ printed' = IF entry = "run_interactive" THEN "Goodbye!" ELSE printed
            /\ UNCHANGED <<stdio, exc>>
    /\ UNCHANGED <<env, aux, app, has_stdio_client, has_session_context, session_ctx,
                   initialized, tools, user_input, turn, hist>>

(* --------------------------- specification ----------------------------- *)

Next ==
    \/ Main
    \/ StdioEnter
    \/ SessionEnter
    \/ Initialize
    \/ DiscoverTools
    \/ ReadInput
    \/ ProcessCommand
    \/ GetTools
    \/ ModelRequest
    \/ ScanText
    \/ ScanOther
    \/ ExecuteTool
    \/ CallToolReturn
    \/ FollowUp
    \/ Complete
    \/ Report
    \/ Stop
    \/ SessionExit
    \/ StdioExit

Spec == Init /\ [][Next]_vars

(* ---------------------------- properties ------------------------------- *)

ToolUseSegs(resp) == {k \in 1..Len(resp) : resp[k].type = "tool_use"}
NumToolUse(resp) == Cardinality(ToolUseSegs(resp))

\* position in resp of its n-th tool_use segment
NthToolUse(resp, n) ==
    CHOOSE k \in ToolUseSegs(resp) :
        Cardinality({j \in ToolUseSegs(resp) : j <= k}) = n

IsExecution(e) == e.type = "tool_execution"
Executions(res) == SelectSeq(res, IsExecution)

AllText(resp) == \A k \in 1..Len(resp) : resp[k].type = "text"

TurnPcs == {"get_tools", "messages_create", "scan", "call_tool", "follow_up"}

\* process_request has returned an outcome that is not yet printed
TurnEnded == pc = "report" /\ result.kind = "outcome"

\* ... and the first model request of that turn had returned a response
TurnEndedWithResponse == TurnEnded /\ idx >= 1

UpperChar(c) ==
    CASE c = "q" -> "Q"
      [] c = "u" -> "U"
      [] c = "i" -> "I"
      [] c = "t" -> "T"
      [] c = "e" -> "E"
      [] c = "x" -> "X"
      [] OTHER -> c

\* the line is "quit" or "exit" written in any letter case
IsQuitWord(s) ==
    \E w \in Sentinels :
        /\ Len(s) = Len(w)
        /\ \A k \in 1..Len(w) : s[k] \in {w[k], UpperChar(w[k])}

\* the turn stopped at a tool_use segment whose tool is not in the registry
UnknownToolRejected ==
    /\ pc = "report"
    /\ idx \in 1..Len(response)
    /\ response[idx].type = "tool_use"
    /\ response[idx].name \notin tools

\* C1 as stated: execute_tool with a tool_name absent from the registry makes
\* no remote call and yields a tool result with success = false.
C1_UnknownToolYieldsResult ==
    UnknownToolRejected =>
        /\ \A k \in DOMAIN remote_calls : remote_calls[k].seg # idx
        /\ tool_result.kind = "result"
        /\ tool_result.tool_name = response[idx].name
        /\ tool_result.success = FALSE

\* C1 amended: execute_tool with a tool_name absent from the registry makes
\* no remote call (every call_tool is for a registered tool) and returns no
\* result at all: it raises the unknown-tool ValueError, no tool_execution
\* entry is recorded for the segment, and process_request turns the error
\* into an outcome with success = false.
C1_UnknownToolRaises ==
    /\ \A k \in DOMAIN remote_calls : remote_calls[k].name \in tools
    /\ UnknownToolRejected =>
        /\ \A k \in DOMAIN remote_calls : remote_calls[k].seg # idx
        /\ in_flight = 0
        /\ raised.cls = "ValueError"
        /\ raised.msg = "Tool '" \o response[idx].name \o "' not available"
        /\ Len(Executions(results)) =
             Cardinality({j \in ToolUseSegs(response) : j < idx})
        /\ result.kind = "outcome"
        /\ result.success = FALSE

C1_Witness == UnknownToolRejected /\ response[idx].name = "create_calendar_event"

\* the calls and follow-ups made so far are those of the first tool_use
\* segments of the response, in response order
CallsInResponseOrder ==
    /\ Len(follow_ups) <= Len(remote_calls)
    /\ Len(remote_calls) <= NumToolUse(response)
    /\ \A k \in DOMAIN remote_calls :
         LET seg == NthToolUse(response, k) IN
         /\ remote_calls[k].seg = seg
         /\ remote_calls[k].name = response[seg].name
         /\ remote_calls[k].arguments = response[seg].input
         /\ k \in DOMAIN follow_ups => follow_ups[k].tool_use_id = response[seg].id

\* C2 as stated: every turn whose first response has N tool_use segments
\* makes exactly N remote invocations and N follow-up requests, in order.
C2_ExactlyNAlways ==
    TurnEndedWithResponse =>
        /\ Len(remote_calls) = NumToolUse(response)
        /\ Len(follow_ups) = NumToolUse(response)
        /\ CallsInResponseOrder

\* C2 amended: a turn whose first response has N tool_use segments and that
\* completes (success = true) made exactly N remote invocations and N
\* follow-up requests, in response order; a turn that aborts (unknown tool,
\* result that json.dumps rejects, failed follow-up request) made only those
\* of the segments up to the abort, in response order.
C2_ExactlyNWhenCompleted ==
    TurnEndedWithResponse =>
        /\ CallsInResponseOrder
        /\ result.success =>
             /\ Len(remote_calls) = NumToolUse(response)
             /\ Len(follow_ups) = NumToolUse(response)
             /\ model_requests = 1 + NumToolUse(response)
        /\ ~result.success =>
             /\ Len(remote_calls) =
                  Cardinality({j \in ToolUseSegs(response) : j < idx})
                  + (IF response[idx].name \in tools THEN 1 ELSE 0)
             /\ Len(follow_ups) \in {Len(remote_calls) - 1, Len(remote_calls)}

C2_Witness ==
    /\ TurnEndedWithResponse
    /\ result.success
    /\ NumToolUse(response) = 2
    /\ Len(remote_calls) = 2
    /\ Len(follow_ups) = 2

\* call_tool raised for the k-th remote invocation of the turn
RemoteFailed(k) == k \in DOMAIN remote_returns /\ ~remote_returns[k].ok

\* C3 as stated: after a remote failure the entry has success = false and a
\* non-empty error string, and the turn ends with success = true.
C3_FailureNonEmptyAndTurnSucceeds ==
    (TurnEnded /\ \E k \in DOMAIN remote_returns : RemoteFailed(k)) =>
        /\ result.success
        /\ \A k \in DOMAIN remote_returns : RemoteFailed(k) =>
             /\ Executions(results)[k].result.success = FALSE
             /\ Executions(results)[k].result.error # ""

\* C3 amended: a remote failure of a known tool yields a tool_execution entry
\* whose result has success = false and error = str(cause), which may be the
\* empty string; the failure itself never aborts the turn: the follow-up
\* request for that tool use is issued, and the turn ends with success = true
\* (all segments processed, the failed entry in the results) unless a later
\* step raises (a failed follow-up request, an unknown tool, a result that
\* json.dumps rejects).
C3_RemoteFailureDoesNotAbort ==
    /\ Len(Executions(results)) = Len(remote_returns)
    /\ \A k \in DOMAIN remote_returns : RemoteFailed(k) =>
         /\ Executions(results)[k].result =
              [kind |-> "result", success |-> FALSE,
               error |-> remote_returns[k].exc.msg,
               tool_name |-> remote_calls[k].name]
         /\ Executions(results)[k].tool_id = response[remote_calls[k].seg].id
         /\ (k < Len(remote_returns) \/ pc \in {"scan", "report"}) =>
              /\ k \in DOMAIN follow_ups
              /\ follow_ups[k].tool_use_id = response[remote_calls[k].seg].id
              /\ follow_ups[k].content = [json |-> Executions(results)[k].result]
    /\ (TurnEndedWithResponse /\ ~result.success) =>
         raised.cls \in {"ValueError", "TypeError", "APIError"}
    /\ (TurnEndedWithResponse /\ result.success) =>
         /\ idx = Len(response) + 1
         /\ result.results = results

C3_Witness ==
    /\ TurnEnded
    /\ result.success
    /\ Len(response) = 2
    /\ response[1].type = "tool_use"
    /\ RemoteFailed(1)
    /\ remote_returns[1].exc.msg = ""
    /\ Len(results) >= 2

\* C4: an exception raised in a turn (first model request, unknown tool,
\* serialisation of the result, follow-up request) is caught in
\* process_request: the outcome has success = false, carries str(cause), has
\* no results although segments may have been processed, and nothing
\* propagates to the caller; a failure outcome only comes from an exception.
C4_ExceptionsBecomeFailureOutcome ==
    /\ pc \in TurnPcs \cup {"process_command", "report", "input"} =>
         exc = NoException
    /\ raised # NoException =>
         /\ pc = "report"
         /\ exc = NoException
         /\ result = [kind |-> "outcome", success |-> FALSE,
                      error |-> "Failed to process request: " \o raised.msg,
                      response |-> "None"]
         /\ "results" \notin DOMAIN result
    /\ (TurnEnded /\ ~result.success) => raised # NoException

C4_Witness ==
    /\ pc = "report"
    /\ raised.cls = "APIError"
    /\ results # <<>>
    /\ result.kind = "outcome"
    /\ result.success = FALSE

\* C5 as stated: once interactive_mode has opened the session, every exit of
\* the command loop leaves both the client session and the transport exited.
C5_ClosedOnEveryLoopExit ==
    (entry = "run_interactive" /\ opened /\ pc = "done") =>
        /\ session_ctx = "exited"
        /\ stdio = "exited"

\* C6 as stated: when a step of open fails and start() propagates the error,
\* whatever open had acquired has been released.
C6_FailedOpenReleases ==
    (started /\ ~opened /\ pc = "done") =>
        /\ stdio # "entered"
        /\ session_ctx # "entered"

\* C7: a turn whose response has only text segments ends with success = true
\* and exactly those texts, in order, as results; no remote invocation and
\* no follow-up request is made during the turn.
C7_TextOnlyTurn ==
    (pc \in {"scan", "call_tool", "follow_up", "report"} /\ idx >= 1
       /\ AllText(response)) =>
        /\ pc \in {"scan", "report"}
        /\ remote_calls = <<>>
        /\ in_flight = 0
        /\ follow_ups = <<>>
        /\ model_requests = 1
        /\ pc = "report" =>
             /\ result.kind = "outcome"
             /\ result.success
             /\ result.results =
                  [k \in 1..Len(response) |->
                     [type |-> "text", content |-> response[k].text]]

C7_Witness ==
    /\ TurnEnded
    /\ Len(response) = 2
    /\ AllText(response)
    /\ response[1].text # response[2].text
    /\ result.success

\* C8: after a turn-level failure the loop reports the error and returns to
\* input() with the connection untouched; the loop is left only from input(),
\* by a quit/exit line or by an exception nothing handles.
C8_LoopContinuesAfterFailure ==
    [][ /\ (entry = "run_interactive" /\ TurnEnded /\ ~result.success) =>
             /\ pc' = "input"
             /\ printed' = "Error"
             /\ UNCHANGED <<conn, exc>>
        /\ (entry = "run_interactive" /\ opened /\ pc # "stop" /\ pc' = "stop") =>
             /\ pc = "input"
             /\ exc' # NoException \/ IsQuitWord(user_input')
      ]_vars

C8_Witness ==
    /\ entry = "run_interactive"
    /\ pc = "input"
    /\ printed = "Error"
    /\ exc = NoException
    /\ stdio = "entered"

\* C9: a line that is quit or exit in any letter case ends the loop with no
\* turn started (no model request, no remote invocation); any other line is
\* passed unchanged to process_request exactly once.
C9_SentinelOrOneTurn ==
    entry = "run_interactive" =>
        /\ pc \in TurnPcs \cup {"process_command", "report"} =>
             /\ ~IsQuitWord(user_input)
             /\ command = user_input
             /\ turns = (IF pc = "process_command" THEN 0 ELSE 1)
        /\ (pc = "stop" /\ exc = NoException) =>
             /\ IsQuitWord(user_input)
             /\ turns = 0
             /\ model_requests = 0
             /\ remote_calls = <<>>

C9_Witness ==
    /\ entry = "run_interactive"
    /\ pc = "stop"
    /\ exc = NoException
    /\ user_input = <<"E", "x", "I", "t">>

C9_WitnessForwarded ==
    /\ entry = "run_interactive"
    /\ pc = "report"
    /\ user_input = <<"q", "u", "i", "t", " ">>
    /\ turns = 1

\* C10: with the credential variable unset (or empty) the process prints
\* the missing-credential message and stops: no assistant is constructed or
\* started, no transport is created and no model request is made.
C10_NoCredentialNoConnection ==
    api_key \in {"None", ""} =>
        /\ pc \in {"main", "done"}
        /\ ~assistant
        /\ ~started
        /\ ~mcp_client
        /\ ~has_stdio_client
        /\ stdio = "none"
        /\ session_ctx = "none"
        /\ turns = 0
        /\ model_requests = 0
        /\ exc = NoException
        /\ pc = "done" =>
             printed = "Please set ANTHROPIC_API_KEY environment variable"

C10_Witness ==
    /\ api_key = "None"
    /\ pc = "done"
    /\ printed = "Please set ANTHROPIC_API_KEY environment variable"

(* ------------------ _format_tools_for_claude alone --------------------- *)

\* a caller holds a descriptor list and has not yet formatted it
InitFormat ==
    /\ pc = "format_tools"
    /\ mcp_tools \in DescriptorLists
    /\ claude_tools = <<>>
    /\ entry = "format_tools"
    /\ api_key = "sk-key"
    /\ assistant = FALSE
    /\ started = FALSE
    /\ opened = FALSE
    /\ mcp_client = FALSE
    /\ has_stdio_client = FALSE
    /\ has_session_context = FALSE
    /\ stdio = "none"
    /\ session_ctx = "none"
    /\ initialized = FALSE
    /\ tools = {}
    /\ exc = NoException
    /\ printed = "nothing"
    /\ user_input = <<>>
    /\ command = <<>>
    /\ response = <<>>
    /\ idx = 0
    /\ results = <<>>
    /\ tool_result = NoToolResult
    /\ result = NoResult
    /\ in_flight = 0
    /\ turns = 0
    /\ model_requests = 0
    /\ remote_calls = <<>>
    /\ remote_returns = <<>>
    /\ follow_ups = <<>>
    /\ raised = NoException
    /\ follow_returns = <<>>

\* claude_tools = self._format_tools_for_claude(mcp_tools)
FormatTools ==
    /\ pc = "format_tools"
    /\ claude_tools' = FormatToolsForClaude(mcp_tools)
    /\ pc' = "formatted"
    /\ UNCHANGED <<env, app, conn, exc, printed, user_input, turn, hist,
                   mcp_tools, follow_returns>>

NextFormat == FormatTools

SpecFormat == InitFormat /\ [][NextFormat]_vars

\* C11: the formatted list has one entry per descriptor, in the same order,
\* each entry made of exactly the descriptor's name, description and
\* input_schema; the lengths are equal.
C11_FormatOneToOneInOrder ==
    pc = "formatted" =>
        /\ Len(claude_tools) = Len(mcp_tools)
        /\ \A k \in 1..Len(mcp_tools) :
             /\ DOMAIN claude_tools[k] = {"name", "description", "input_schema"}
             /\ claude_tools[k].name = mcp_tools[k].name
             /\ claude_tools[k].description = mcp_tools[k].description
             /\ claude_tools[k].input_schema = mcp_tools[k].input_schema

C11_Witness ==
    /\ pc = "formatted"
    /\ Len(mcp_tools) = 3
    /\ mcp_tools[1].name # mcp_tools[3].name
    /\ "annotations" \in DOMAIN mcp_tools[2]
    /\ Len(claude_tools) = 3

(* ---------------------- properties of the turn ------------------------- *)

\* the first model response of the current turn has been received
InTurnWithResponse ==
    pc \in {"scan", "call_tool", "follow_up", "report"} /\ idx >= 1

\* C12: remote invocations of a turn are strictly sequential: at most one is
\* in flight, and while the call of a segment is in flight every earlier
\* call has returned and every earlier follow-up has been issued and has
\* returned.
C12_OneInvocationAtATime ==
    /\ in_flight \in {0, 1}
    /\ in_flight = 1 <=> pc = "call_tool"
    /\ pc = "call_tool" =>
         /\ Len(remote_returns) = Len(remote_calls) - 1
         /\ Len(follow_ups) = Len(remote_calls) - 1
         /\ Len(follow_returns) = Len(remote_calls) - 1
    /\ pc # "call_tool" => Len(remote_returns) = Len(remote_calls)

C12_Witness ==
    /\ pc = "call_tool"
    /\ in_flight = 1
    /\ Len(remote_calls) = 2
    /\ Len(remote_returns) = 1
    /\ Len(follow_returns) = 1

\* C13: a tool_use block of a follow-up response is never executed and never
\* answered: every remote call is for a segment of the first response, and a
\* turn whose first response has N tool_use segments makes at most 1 + N
\* model requests (one per follow-up issued) and at most N remote calls.
C13_OneRoundTripPerToolUse ==
    InTurnWithResponse =>
        /\ model_requests = 1 + Len(follow_ups)
        /\ model_requests <= 1 + NumToolUse(response)
        /\ Len(remote_calls) <= NumToolUse(response)
        /\ Len(Executions(results)) <= NumToolUse(response)
        /\ \A k \in DOMAIN remote_calls :
             remote_calls[k].seg \in ToolUseSegs(response)
        /\ \A j, k \in DOMAIN remote_calls :
             j # k => remote_calls[j].seg # remote_calls[k].seg

C13_Witness ==
    /\ TurnEnded
    /\ result.success
    /\ NumToolUse(response) = 1
    /\ Len(follow_returns) = 1
    /\ \E k \in 1..Len(follow_returns[1]) : follow_returns[1][k].type = "tool_use"
    /\ model_requests = 2
    /\ Len(remote_calls) = 1

\* the result execute_tool builds from what call_tool returned or raised
ResultOf(name, ans) ==
    IF ans.ok
    THEN [kind |-> "result", success |-> TRUE, content |-> ans.content,
          tool_name |-> name]
    ELSE [kind |-> "result", success |-> FALSE, error |-> ans.exc.msg,
          tool_name |-> name]

\* C14: the k-th follow-up request of a turn echoes the whole content of the
\* first response as the assistant message and carries one tool_result whose
\* tool_use_id is the id of the segment of the k-th remote call and whose
\* content is the JSON text of the result of that call.
C14_FollowUpCarriesItsOwnResult ==
    \A k \in DOMAIN follow_ups :
        /\ k \in DOMAIN remote_returns
        /\ follow_ups[k].assistant = response
        /\ remote_calls[k].seg = NthToolUse(response, k)
        /\ follow_ups[k].tool_use_id = response[remote_calls[k].seg].id
        /\ follow_ups[k].content =
             [json |-> ResultOf(response[remote_calls[k].seg].name,
                                remote_returns[k])]

C14_Witness ==
    /\ Len(follow_ups) = 2
    /\ follow_ups[1].tool_use_id = "toolu_2"
    /\ follow_ups[2].tool_use_id = "toolu_1"
    /\ follow_ups[1].content # follow_ups[2].content

IsTextBlock(b) == b.type = "text"

\* the entries the k-th segment of the response contributes
SegmentEntries(k) ==
    LET b == response[k]
        j == Cardinality({i \in ToolUseSegs(response) : i <= k})
        texts == IF b.type = "tool_use"
                 THEN SelectSeq(follow_returns[j], IsTextBlock) ELSE <<>>
    IN IF b.type = "text" THEN <<[type |-> "text", content |-> b.text]>>
       ELSE IF b.type = "tool_use"
       THEN <<[type |-> "tool_execution", tool_name |-> b.name,
               tool_id |-> b.id, input |-> b.input,
               result |-> ResultOf(b.name, remote_returns[j])]>>
            \o [i \in 1..Len(texts) |->
                  [type |-> "final_response", content |-> texts[i].text]]
       ELSE <<>>

RECURSIVE EntriesFrom(_)
EntriesFrom(k) ==
    IF k > Len(response) THEN <<>> ELSE SegmentEntries(k) \o EntriesFrom(k + 1)

\* C15: the results of a successful outcome are the concatenation, in
\* segment order, of one text entry per text segment and, per tool_use
\* segment, its tool_execution entry followed by the final_response entries
\* of its own follow-up in follow-up order.
C15_ResultsFollowSegmentOrder ==
    (TurnEndedWithResponse /\ result.success) =>
        result.results = EntriesFrom(1)

C15_Witness ==
    /\ TurnEndedWithResponse
    /\ result.success
    /\ Len(response) = 2
    /\ response[1].type = "tool_use"
    /\ response[2].type = "text"
    /\ Len(follow_returns) = 1
    /\ Len(SelectSeq(follow_returns[1], IsTextBlock)) = 2
    /\ Len(result.results) = 4

\* C16: self.tools is assigned by the discovery step of open only; once the
\* session is open no step (get_available_tools, execute_tool that succeeds,
\* fails or rejects, process_request, close) changes it, and the tool list
\* every turn hands to the model names exactly the registered tools.
C16_RegistryWrittenOnlyByDiscovery ==
    /\ [](pc \in {"messages_create", "scan", "call_tool", "follow_up"} =>
            {claude_tools[k].name : k \in DOMAIN claude_tools} = tools)
    /\ [][tools' # tools => (pc = "discover" /\ ~opened)]_vars

C16_Witness ==
    /\ pc = "report"
    /\ opened
    /\ tools = ToolNames
    /\ Len(remote_returns) = 2
    /\ ~remote_returns[1].ok
    /\ remote_returns[2].ok

\* C17: a turn that returns success = true made as many remote invocations
\* as its outcome has tool_execution entries.  A turn that aborts at a
\* tool_use segment has made the invocations of the earlier tool_use
\* segments, and that of the segment itself unless its tool was unknown;
\* what those calls returned stays as it was, and the failure outcome has
\* no results.
C17_InvocationsVersusReportedEntries ==
    /\ (TurnEndedWithResponse /\ result.success) =>
         Len(remote_calls) = Len(Executions(result.results))
    /\ (TurnEndedWithResponse /\ ~result.success) =>
         /\ response[idx].type = "tool_use"
         /\ Len(remote_calls) =
              Cardinality({j \in ToolUseSegs(response) : j < idx})
              + (IF raised.cls = "ValueError" THEN 0 ELSE 1)
         /\ Len(remote_returns) = Len(remote_calls)
         /\ "results" \notin DOMAIN result
         /\ raised.cls = "ValueError" <=> response[idx].name \notin tools

C17_Witness ==
    /\ TurnEndedWithResponse
    /\ ~result.success
    /\ raised.cls = "APIError"
    /\ Len(remote_calls) = 2
    /\ remote_returns[1].ok
    /\ remote_returns[2].ok

C17_WitnessCompleted ==
    /\ TurnEndedWithResponse
    /\ result.success
    /\ Len(remote_calls) = 2
    /\ ~remote_returns[1].ok

\* C18 as stated: close exits the client session before the transport, exits
\* nothing that was not entered, and exits the transport also when the exit
\* of the client session raised.
C18_CloseReleasesInReverseOrder ==
    /\ stdio \in {"exited", "exited_unentered"} => session_ctx # "entered"
    /\ stdio # "exited_unentered"
    /\ session_ctx # "exited_unentered"
    /\ (pc = "done" /\ session_ctx = "exited") => stdio # "entered"

\* C19: process_request called while mcp_client is None returns an outcome
\* with success = false and makes no model request and no remote invocation.
C19_NoSessionNoRequests ==
    (~mcp_client /\ pc \in TurnPcs \cup {"report"}) =>
        /\ pc \in {"get_tools", "report"}
        /\ model_requests = 0
        /\ remote_calls = <<>>
        /\ in_flight = 0
        /\ pc = "report" =>
             /\ result.kind = "outcome"
             /\ result.success = FALSE
             /\ raised.cls = "AttributeError"

C19_Witness ==
    /\ entry = "process_request"
    /\ ~mcp_client
    /\ pc = "report"
    /\ result.kind = "outcome"
    /\ result.success = FALSE
    /\ model_requests = 0

====
